---- MODULE Spec2Model ----
(***************************************************************************)
(* Model of agent/plugins/configurepackage/configurepackage_execute.go:    *)
(* executeConfigurePackage and the sub-procedures executeInstall,          *)
(* executeUninstall, setNewInstallState and cleanupAfterUninstall.         *)
(*                                                                         *)
(* The installer, the repository, the tracer and the outcome reporter are  *)
(* collaborators behind interfaces.  Every call made on them is appended   *)
(* to `events`; what they return is an input drawn from a small set.       *)
(* All calls between executeInstall and executeUninstall are tail calls    *)
(* (each is followed by `return`), so one frame (cInst, cUninst,           *)
(* isRollback) plus the number of pending deferred End() calls is the      *)
(* whole call stack.                                                       *)
(*                                                                         *)
(* Each step of the code is an operator from the state of a run (a record  *)
(* of the variables below) and the inputs of the step to the next state;   *)
(* the actions apply these operators to the variables.                     *)
(***************************************************************************)
EXTENDS Integers, Sequences, FiniteSets, TLC

VARIABLES
    inst,                 \* parameter inst of executeConfigurePackage (Nil or a version)
    uninst,               \* parameter uninst of executeConfigurePackage
    isUpdateInPlace,      \* parameter isUpdateInPlace
    initialInstallState,  \* parameter initialInstallState
    pc,                   \* position of the run
    cInst,                \* parameter inst of the running sub-procedure
    cUninst,              \* parameter uninst of the running sub-procedure
    isRollback,           \* parameter isRollback of the running sub-procedure
    result,               \* local variable result of the running sub-procedure
    store,                \* repository: version -> persisted InstallState
    removed,              \* repository: versions whose artifacts were removed
    events,               \* every call made on a collaborator, in order
    opened,               \* number of tracer.BeginSection calls
    ended,                \* number of Section.End calls
    deferred,             \* number of pending `defer ...End()`
    run,                  \* 1 for a first call, 2 for the call that resumes it
    interrupted,          \* the action of the first call that returned reboot-pending
    ref                   \* the first call as it stood at that action (reference run)

vars == << inst, uninst, isUpdateInPlace, initialInstallState, pc, cInst, cUninst,
           isRollback, result, store, removed, events, opened, ended, deferred,
           run, interrupted, ref >>

params == << inst, uninst, isUpdateInPlace >>

\* the variables of one run
runVars == << pc, cInst, cUninst, isRollback, result, store, removed, events,
              opened, ended, deferred >>

----------------------------------------------------------------------------
(* Bounds *)

\* at most MaxRepoErrors calls on the repository return an error during one call
\* of executeConfigurePackage
MaxRepoErrors == 1

----------------------------------------------------------------------------
(* Data *)

Nil == "nil"

\* the two installer handles of one package name, identified by their version
NewVer == "v2"

OldVer == "v1"

Versions == {OldVer, NewVer}

\* localpackages.InstallState
None == "None"

Installing == "Installing"

Installed == "Installed"

Updating == "Updating"

Uninstalling == "Uninstalling"

Upgrading == "Upgrading"

RollbackInstall == "RollbackInstall"

RollbackUninstall == "RollbackUninstall"

Failed == "Failed"

InstallStates == {None, Installing, Installed, Updating, Uninstalling, Upgrading,
                  RollbackInstall, RollbackUninstall, Failed}

InProgress == {Installing, Updating, Uninstalling, Upgrading, RollbackInstall,
               RollbackUninstall}

\* contracts.ResultStatus
ResultStatusSuccess == "Success"

ResultStatusSuccessAndReboot == "SuccessAndReboot"

ResultStatusFailed == "Failed"

Statuses == {ResultStatusSuccess, ResultStatusSuccessAndReboot, ResultStatusFailed}

\* ResultStatus.IsSuccess: succeeded, with or without a pending reboot
IsSuccess(s) == s \in {ResultStatusSuccess, ResultStatusSuccessAndReboot}

\* ResultStatus.IsReboot
IsReboot(s) == s = ResultStatusSuccessAndReboot

\* captured stderr texts, as sequences of words
MissingUpdateScript == << "missing", "update", "script" >>

Stderrs == { << >>,
             << "missing", "update" >>,
             << "error:", "missing", "update", "script" >> }

\* strings.Contains(s, sub): sub occurs in s as a contiguous run
Contains(s, sub) ==
    \E i \in 0..(Len(s) - Len(sub)) :
        \A j \in 1..Len(sub) : s[i + j] = sub[j]

\* what an action of the installer returns (contracts.PluginOutputter): its
\* status and its captured stderr.  The exit code is only copied to the trace
\* (WithExitcode) and is left out.
ResultStderrs == { << >>, << "error:", "missing", "update", "script" >> }

Results == [status : Statuses, stderr : ResultStderrs]

NoResult == [status |-> "-", stderr |-> << >>]

NoRef == [pc |-> "-"]

NoInterrupt == [op |-> "-", ver |-> "-", marker |-> "-"]

\* one call on a collaborator: op on version ver with argument arg; status is
\* the status of the Result an installer action returned, err tells whether
\* the repository returned an error, marker whether the text output.GetStderr
\* returned contains "missing update script"
Ev(op, ver, arg, status, err, marker) ==
    [op |-> op, ver |-> ver, arg |-> arg, status |-> status, err |-> err,
     marker |-> marker]

Marks == {"MarkAsSucceeded", "MarkAsSuccessWithReboot", "MarkAsFailed"}

Actions == {"Install", "Update", "Uninstall"}

----------------------------------------------------------------------------
(* Collaborators *)

\* Repository.SetInstallState: an atomic write of the state of one version;
\* a call that returns an error has written nothing
SetInstallState(st, ver, newInstallState, err) ==
    IF err THEN st ELSE [st EXCEPT ![ver] = newInstallState]

\* Repository.RemovePackage: removes the stored artifacts of one version
RemovePackage(rm, ver, err) ==
    IF err THEN rm ELSE rm \cup {ver}

Range(s) == {s[i] : i \in 1..Len(s)}

Errors(evs) == Cardinality({i \in 1..Len(evs) : evs[i].err})

\* the Mark... calls made on the outcome reporter, in order
Reported(evs) ==
    LET marks == SelectSeq(evs, LAMBDA e : e.op \in Marks) IN
    [i \in 1..Len(marks) |-> marks[i].op]

NoEvent == Ev("-", "-", "-", "-", FALSE, FALSE)

\* the last SetInstallState call among evs (NoEvent when there is none)
LastSet(evs) ==
    LET idx == {i \in 1..Len(evs) : evs[i].op = "SetInstallState"} IN
    IF idx = {} THEN NoEvent
    ELSE evs[CHOOSE i \in idx : \A j \in idx : j <= i]

----------------------------------------------------------------------------
(* Decisions of the code *)

Call(fn, i, u, rollback) == [fn |-> fn, inst |-> i, uninst |-> u, rollback |-> rollback]

\* a switch whose default case does not look at the in-place flag
Dispatch_InPlaceIgnored(state, i, u, inPlace) ==
    CASE state \in {Installing, Updating} -> Call("executeInstall", i, u, FALSE)
      [] state = RollbackInstall          -> Call("executeInstall", u, i, TRUE)
      [] state = RollbackUninstall        -> Call("executeUninstall", u, i, TRUE)
      [] OTHER ->
            IF u # Nil
            THEN Call("executeUninstall", i, u, FALSE)
            ELSE Call("executeInstall", i, u, FALSE)

\* a switch without the cases that resume a rollback
Dispatch_NoRollbackCases(state, i, u, inPlace) ==
    IF state \in {Installing, Updating} \/ u = Nil \/ inPlace
    THEN Call("executeInstall", i, u, FALSE)
    ELSE Call("executeUninstall", i, u, FALSE)

\* executeConfigurePackage, the switch on initialInstallState
Dispatch(state, i, u, inPlace) ==
    CASE state \in {Installing, Updating} -> Call("executeInstall", i, u, FALSE)
      [] state = RollbackInstall          -> Call("executeInstall", u, i, TRUE)
      [] state = RollbackUninstall        -> Call("executeUninstall", u, i, TRUE)
      [] OTHER ->
            IF u # Nil /\ ~inPlace
            THEN Call("executeUninstall", i, u, FALSE)
            ELSE Call("executeInstall", i, u, FALSE)

\* executeInstall: the state written before the action
InstallMarker(rollback, inPlace) ==
    IF rollback THEN RollbackInstall
    ELSE IF inPlace THEN Updating
    ELSE Installing

\* an action chosen from the in-place flag alone
InstallAction_ByFlagOnly(rollback, inPlace) ==
    IF inPlace THEN "Update" ELSE "Install"

\* executeInstall: the action invoked on inst
InstallAction(rollback, inPlace) ==
    IF rollback THEN "Install"
    ELSE IF inPlace THEN "Update"
    ELSE "Install"

\* executeInstall: isUpdateInPlace && strings.Contains(output.GetStderr(), ...);
\* && does not evaluate its right operand when the left one is false
ReadsStderr(inPlace) == inPlace

NoRollbackOnMissingScript(inPlace, text) ==
    inPlace /\ Contains(text, MissingUpdateScript)

\* a hard stop for a failed rollback only
HardStop_RollbackOnly(rollback, u) == rollback

\* executeInstall: isRollback || uninst == nil
HardStop(rollback, u) == rollback \/ u = Nil

\* executeUninstall: the state written before Uninstall
UninstallMarker(rollback, i) ==
    IF rollback THEN RollbackUninstall
    ELSE IF i # Nil THEN Upgrading
    ELSE Uninstalling

\* setNewInstallState: the call it makes on the repository
setNewInstallState(ver, newInstallState, err) ==
    Ev("SetInstallState", ver, newInstallState, "-", err, FALSE)

\* cleanupAfterUninstall: the call it makes on the repository
cleanupAfterUninstall(ver, err) ==
    Ev("RemovePackage", ver, "-", "-", err, FALSE)

Mark(op) == Ev(op, "-", "-", "-", FALSE, FALSE)

ActionEv(op, ver, r) == Ev(op, ver, "-", r.status, FALSE, FALSE)

GetStderr(ver, text) ==
    Ev("GetStderr", ver, "-", "-", FALSE, Contains(text, MissingUpdateScript))

\* return from the sub-procedure and from executeConfigurePackage after the
\* calls evs: every deferred End() runs; nOpen sections were begun and nEnd
\* ended on the way
Return(s, evs, nOpen, nEnd) ==
    [s EXCEPT !.pc = "done",
              !.events = s.events \o evs,
              !.opened = s.opened + nOpen,
              !.ended = s.ended + nEnd + s.deferred,
              !.deferred = 0,
              !.result = NoResult]

\* a method call on a nil installer: the goroutine panics, the deferred
\* End() calls run, and the panic leaves executeConfigurePackage
Panic(s) ==
    [s EXCEPT !.pc = "panic",
              !.ended = s.ended + s.deferred,
              !.deferred = 0,
              !.result = NoResult]

----------------------------------------------------------------------------
(* The steps of the code, on the state s of a run *)

\* executeConfigurePackage: BeginSection, defer End, and the switch
executeConfigurePackage(s) ==
    LET d == Dispatch(initialInstallState, inst, uninst, isUpdateInPlace) IN
    [s EXCEPT !.pc = d.fn,
              !.cInst = d.inst,
              !.cUninst = d.uninst,
              !.isRollback = d.rollback,
              !.opened = s.opened + 1,
              !.deferred = s.deferred + 1]

\* an executeInstall that invokes the action without writing a marker
executeInstall_Begin_NoWrite(s, err) ==
    IF s.cInst = Nil
    THEN Panic(s)
    ELSE [s EXCEPT !.pc = "install_action",
                   !.opened = s.opened + 1,
                   !.deferred = s.deferred + 1]

\* executeInstall up to the action: BeginSection("install ..."), defer End,
\* and the in-progress marker is written
executeInstall_Begin(s, err) ==
    IF s.cInst = Nil
    THEN Panic(s)
    ELSE LET marker == InstallMarker(s.isRollback, isUpdateInPlace) IN
         [s EXCEPT !.pc = "install_action",
                   !.store = SetInstallState(s.store, s.cInst, marker, err),
                   !.events = Append(s.events, setNewInstallState(s.cInst, marker, err)),
                   !.opened = s.opened + 2,
                   !.ended = s.ended + 1,
                   !.deferred = s.deferred + 1]

\* an action whose every successful status, reboot-pending too, is validated
executeInstall_Action_ValidateOnReboot(s, r) ==
    [s EXCEPT !.pc = IF IsSuccess(r.status) THEN "validate" ELSE "install_result",
              !.result = r,
              !.events = Append(s.events,
                    ActionEv(InstallAction(s.isRollback, isUpdateInPlace), s.cInst, r))]

\* inst.Install or inst.Update returns r
executeInstall_Action(s, r) ==
    [s EXCEPT !.pc = IF r.status = ResultStatusSuccess THEN "validate"
                     ELSE "install_result",
              !.result = r,
              !.events = Append(s.events,
                    ActionEv(InstallAction(s.isRollback, isUpdateInPlace), s.cInst, r))]

\* BeginSection("validate ...") and inst.Validate returns r; the section is
\* not ended
executeInstall_Validate(s, r) ==
    [s EXCEPT !.pc = "install_result",
              !.result = r,
              !.events = Append(s.events, ActionEv("Validate", s.cInst, r)),
              !.opened = s.opened + 1]

\* executeInstall, the update script is missing: Installed is written, then
\* MarkAsFailed; read are the calls made on the way here
executeInstall_MissingScript(s, read, err) ==
    Return([s EXCEPT !.store = SetInstallState(s.store, s.cInst, Installed, err)],
           read \o << setNewInstallState(s.cInst, Installed, err),
                      Mark("MarkAsFailed") >>,
           1, 1)

\* a hard stop that returns right after MarkAsFailed
executeInstall_HardStop_NoWrite(s, read, err) ==
    Return(s, read \o << Mark("MarkAsFailed") >>, 0, 0)

\* executeInstall, no rollback is possible: MarkAsFailed, then Failed is written
executeInstall_HardStop(s, read, err) ==
    Return([s EXCEPT !.store = SetInstallState(s.store, s.cInst, Failed, err)],
           read \o << Mark("MarkAsFailed"),
                      setNewInstallState(s.cInst, Failed, err) >>,
           1, 1)

\* a rollback that passes isRollback on instead of true
executeInstall_Rollback_SameFlag(s, read) ==
    [s EXCEPT !.pc = "executeUninstall",
              !.cInst = s.cUninst,
              !.cUninst = s.cInst,
              !.result = NoResult,
              !.events = s.events \o read]

\* executeInstall: executeUninstall(uninst, inst, isUpdateInPlace, true)
executeInstall_Rollback(s, read) ==
    [s EXCEPT !.pc = "executeUninstall",
              !.cInst = s.cUninst,
              !.cUninst = s.cInst,
              !.isRollback = TRUE,
              !.result = NoResult,
              !.events = s.events \o read]

\* a failure path that rolls back a rollback as well
executeInstall_Failed_RollbackAgain(s, text, err) ==
    LET read == IF ReadsStderr(isUpdateInPlace)
                THEN << GetStderr(s.cInst, text) >>
                ELSE << >>
    IN
    IF NoRollbackOnMissingScript(isUpdateInPlace, text)
    THEN executeInstall_MissingScript(s, read, err)
    ELSE IF s.cUninst = Nil
    THEN executeInstall_HardStop(s, read, err)
    ELSE executeInstall_Rollback(s, read)

\* executeInstall, !result.GetStatus().IsSuccess(): output.GetStderr() returns
\* text (when it is called), the repository returns err
executeInstall_Failed(s, text, err) ==
    LET read == IF ReadsStderr(isUpdateInPlace)
                THEN << GetStderr(s.cInst, text) >>
                ELSE << >>
    IN
    IF NoRollbackOnMissingScript(isUpdateInPlace, text)
    THEN executeInstall_MissingScript(s, read, err)
    ELSE IF HardStop(s.isRollback, s.cUninst)
    THEN executeInstall_HardStop(s, read, err)
    ELSE executeInstall_Rollback(s, read)

\* a success path that reports failed when RemovePackage returned an error
executeInstall_Succeeded_CleanupFatal(s, errRemove, err) ==
    IF errRemove
    THEN Return([s EXCEPT !.removed = RemovePackage(s.removed, s.cUninst, errRemove)],
                << cleanupAfterUninstall(s.cUninst, errRemove), Mark("MarkAsFailed") >>,
                1, 1)
    ELSE Return([s EXCEPT !.removed = IF s.cUninst # Nil
                                      THEN RemovePackage(s.removed, s.cUninst, errRemove)
                                      ELSE s.removed,
                          !.store = SetInstallState(s.store, s.cInst, Installed, err)],
                (IF s.cUninst # Nil
                 THEN << cleanupAfterUninstall(s.cUninst, errRemove) >>
                 ELSE << >>)
                \o << setNewInstallState(s.cInst, Installed, err),
                      Mark(IF s.isRollback THEN "MarkAsFailed" ELSE "MarkAsSucceeded") >>,
                1, 1)

\* executeInstall, the install and its validation succeeded
executeInstall_Succeeded(s, errRemove, err) ==
    LET clean == IF s.cUninst # Nil
                 THEN << cleanupAfterUninstall(s.cUninst, errRemove) >>
                 ELSE << >>
        cleaned == IF s.cUninst # Nil
                   THEN [s EXCEPT !.removed = RemovePackage(s.removed, s.cUninst, errRemove),
                                  !.events = s.events \o clean,
                                  !.opened = s.opened + 1,
                                  !.ended = s.ended + 1]
                   ELSE s
    IN
    IF s.isRollback /\ s.cUninst = Nil
    THEN \* AppendInfof(..., uninst.PackageName(), ...) on a nil uninst
         Panic(cleaned)
    ELSE Return([cleaned EXCEPT
                    !.store = SetInstallState(s.store, s.cInst, Installed, err)],
                << setNewInstallState(s.cInst, Installed, err),
                   Mark(IF s.isRollback THEN "MarkAsFailed" ELSE "MarkAsSucceeded") >>,
                1, 1)

\* a reboot-pending install that is recorded as Installed
executeInstall_Reboot_Installed(s) ==
    Return([s EXCEPT !.store = SetInstallState(s.store, s.cInst, Installed, FALSE)],
           << setNewInstallState(s.cInst, Installed, FALSE),
              Mark("MarkAsSuccessWithReboot") >>,
           2, 1)

\* executeInstall, result.GetStatus().IsReboot(): BeginSection("Rebooting
\* ...") (not ended), MarkAsSuccessWithReboot
executeInstall_Reboot(s) ==
    Return(s, << Mark("MarkAsSuccessWithReboot") >>, 1, 0)

\* executeInstall after the action and its validation
executeInstall_Result(s, text, errRemove, err) ==
    IF IsReboot(s.result.status)
    THEN executeInstall_Reboot(s)
    ELSE IF ~IsSuccess(s.result.status)
    THEN executeInstall_Failed(s, text, err)
    ELSE executeInstall_Succeeded(s, errRemove, err)

\* executeUninstall up to the action: BeginSection("uninstall ..."), defer
\* End, and the in-progress marker is written
executeUninstall_Begin(s, err) ==
    IF s.cUninst = Nil
    THEN Panic(s)
    ELSE LET marker == UninstallMarker(s.isRollback, s.cInst) IN
         [s EXCEPT !.pc = "uninstall_action",
                   !.store = SetInstallState(s.store, s.cUninst, marker, err),
                   !.events = Append(s.events, setNewInstallState(s.cUninst, marker, err)),
                   !.opened = s.opened + 2,
                   !.ended = s.ended + 1,
                   !.deferred = s.deferred + 1]

\* uninst.Uninstall returns r
executeUninstall_Action(s, r) ==
    [s EXCEPT !.pc = "uninstall_result",
              !.result = r,
              !.events = Append(s.events, ActionEv("Uninstall", s.cUninst, r))]

\* a continuation that first records the failed uninstall
executeUninstall_Continue_MarkFailed(s) ==
    [s EXCEPT !.pc = "executeInstall",
              !.result = NoResult,
              !.store = IF IsSuccess(s.result.status) THEN s.store
                        ELSE SetInstallState(s.store, s.cUninst, Failed, FALSE),
              !.events = IF IsSuccess(s.result.status) THEN s.events
                         ELSE Append(s.events, setNewInstallState(s.cUninst, Failed, FALSE))]

\* executeInstall(inst, uninst, isUpdateInPlace, isRollback)
executeUninstall_Continue(s) ==
    [s EXCEPT !.pc = "executeInstall", !.result = NoResult]

\* executeUninstall, the uninstall failed and there is nothing to install:
\* Failed is written, then MarkAsFailed
executeUninstall_Failed(s, err) ==
    Return([s EXCEPT !.store = SetInstallState(s.store, s.cUninst, Failed, err)],
           << setNewInstallState(s.cUninst, Failed, err), Mark("MarkAsFailed") >>,
           1, 1)

\* a reboot-pending uninstall that also removes the package
executeUninstall_Reboot_Cleanup(s) ==
    Return([s EXCEPT !.removed = RemovePackage(s.removed, s.cUninst, FALSE)],
           << cleanupAfterUninstall(s.cUninst, FALSE),
              Mark("MarkAsSuccessWithReboot") >>,
           2, 1)

\* executeUninstall, result.GetStatus().IsReboot(): BeginSection("Rebooting
\* ...") (not ended), MarkAsSuccessWithReboot
executeUninstall_Reboot(s) ==
    Return(s, << Mark("MarkAsSuccessWithReboot") >>, 1, 0)

\* a successful uninstall that skips the cleanup
executeUninstall_Succeeded_NoCleanup(s, errRemove, err) ==
    Return([s EXCEPT !.store = SetInstallState(s.store, s.cUninst, None, err)],
           << setNewInstallState(s.cUninst, None, err),
              Mark("MarkAsSucceeded") >>,
           1, 1)

\* executeUninstall, the uninstall succeeded and there is nothing to install:
\* cleanup, None is written, MarkAsSucceeded
executeUninstall_Succeeded(s, errRemove, err) ==
    Return([s EXCEPT !.removed = RemovePackage(s.removed, s.cUninst, errRemove),
                     !.store = SetInstallState(s.store, s.cUninst, None, err)],
           << cleanupAfterUninstall(s.cUninst, errRemove),
              setNewInstallState(s.cUninst, None, err),
              Mark("MarkAsSucceeded") >>,
           2, 2)

\* executeUninstall after the action
executeUninstall_Result(s, errRemove, err) ==
    IF ~IsSuccess(s.result.status)
    THEN IF s.cInst # Nil
         THEN executeUninstall_Continue(s)
         ELSE executeUninstall_Failed(s, err)
    ELSE IF IsReboot(s.result.status)
    THEN executeUninstall_Reboot(s)
    ELSE IF s.cInst # Nil
    THEN executeUninstall_Continue(s)
    ELSE executeUninstall_Succeeded(s, errRemove, err)

----------------------------------------------------------------------------
(* Initial states *)

\* A call is given an installer to install (inst), one to uninstall (uninst),
\* or both.  It starts on a store in which at most one version of the package
\* is live (neither None nor Failed); initialInstallState is a state read from
\* the store.
Init ==
    /\ inst \in {Nil, NewVer}
    /\ uninst \in {Nil, OldVer}
    /\ inst # Nil \/ uninst # Nil
    /\ isUpdateInPlace \in BOOLEAN
    /\ store \in [Versions -> InstallStates]
    /\ Cardinality({v \in Versions : store[v] \notin {None, Failed}}) <= 1
    /\ initialInstallState \in {store[v] : v \in Versions}
    /\ pc = "entry"
    /\ cInst = Nil
    /\ cUninst = Nil
    /\ isRollback = FALSE
    /\ result = NoResult
    /\ removed = {}
    /\ events = << >>
    /\ opened = 0
    /\ ended = 0
    /\ deferred = 0
    /\ run = 1
    /\ interrupted = NoInterrupt
    /\ ref = NoRef

----------------------------------------------------------------------------
(* Actions *)

\* the state of the running call
Cur ==
    [pc |-> pc, cInst |-> cInst, cUninst |-> cUninst, isRollback |-> isRollback,
     result |-> result, store |-> store, removed |-> removed, events |-> events,
     opened |-> opened, ended |-> ended, deferred |-> deferred]

Becomes(n) ==
    /\ pc' = n.pc
    /\ cInst' = n.cInst
    /\ cUninst' = n.cUninst
    /\ isRollback' = n.isRollback
    /\ result' = n.result
    /\ store' = n.store
    /\ removed' = n.removed
    /\ events' = n.events
    /\ opened' = n.opened
    /\ ended' = n.ended
    /\ deferred' = n.deferred

\* the resumed call has reached the action at which the first call was
\* interrupted, in the same sub-procedure with the same arguments: from here
\* on the reference run takes the same steps with the same inputs
Synced ==
    /\ run = 2
    /\ ref.pc = pc
    /\ ref.cInst = cInst
    /\ ref.cUninst = cUninst
    /\ ref.isRollback = isRollback

\* the running call becomes n and the reference run m; at most MaxRepoErrors
\* calls on the repository have returned an error
Advance(n, m) ==
    /\ Errors(n.events) <= MaxRepoErrors
    /\ Becomes(n)
    /\ ref' = m
    /\ UNCHANGED << params, initialInstallState, run, interrupted >>

\* an installer action returns r; the first call remembers where a
\* reboot-pending result interrupted it
Act(n, m, op, ver, r) ==
    IF run = 1 /\ IsReboot(r.status)
    THEN /\ Becomes(n)
         /\ ref' = Cur
         /\ interrupted' = [op |-> op, ver |-> ver, marker |-> LastSet(events).arg]
         /\ UNCHANGED << params, initialInstallState, run >>
    ELSE Advance(n, m)

Enter ==
    /\ pc = "entry"
    /\ Advance(executeConfigurePackage(Cur), ref)

BeginInstall ==
    /\ pc = "executeInstall"
    /\ \E err \in BOOLEAN :
        Advance(executeInstall_Begin(Cur, err),
                IF Synced THEN executeInstall_Begin(ref, err) ELSE ref)

RunInstall ==
    /\ pc = "install_action"
    /\ \E r \in Results :
        Act(executeInstall_Action(Cur, r),
            IF Synced THEN executeInstall_Action(ref, r) ELSE ref,
            InstallAction(isRollback, isUpdateInPlace), cInst, r)

RunValidate ==
    /\ pc = "validate"
    /\ \E r \in Results :
        Act(executeInstall_Validate(Cur, r),
            IF Synced THEN executeInstall_Validate(ref, r) ELSE ref,
            "Validate", cInst, r)

FinishInstall ==
    /\ pc = "install_result"
    /\ \E text \in Stderrs, errRemove \in BOOLEAN, err \in BOOLEAN :
        \* an input the branch taken does not read is not varied
        /\ (IsSuccess(result.status) \/ ~ReadsStderr(isUpdateInPlace)) => text = << >>
        /\ (~IsSuccess(result.status) \/ IsReboot(result.status) \/ cUninst = Nil)
                => ~errRemove
        /\ IsReboot(result.status) => ~err
        /\ Advance(executeInstall_Result(Cur, text, errRemove, err),
                IF Synced THEN executeInstall_Result(ref, text, errRemove, err) ELSE ref)

BeginUninstall ==
    /\ pc = "executeUninstall"
    /\ \E err \in BOOLEAN :
        Advance(executeUninstall_Begin(Cur, err),
                IF Synced THEN executeUninstall_Begin(ref, err) ELSE ref)

RunUninstall ==
    /\ pc = "uninstall_action"
    /\ \E r \in Results :
        Act(executeUninstall_Action(Cur, r),
            IF Synced THEN executeUninstall_Action(ref, r) ELSE ref,
            "Uninstall", cUninst, r)

FinishUninstall ==
    /\ pc = "uninstall_result"
    /\ \E errRemove \in BOOLEAN, err \in BOOLEAN :
        \* an input the branch taken does not read is not varied
        /\ (~IsSuccess(result.status) \/ IsReboot(result.status) \/ cInst # Nil)
                => ~errRemove
        /\ (IsReboot(result.status) \/ cInst # Nil) => ~err
        /\ Advance(executeUninstall_Result(Cur, errRemove, err),
                IF Synced THEN executeUninstall_Result(ref, errRemove, err) ELSE ref)

Next ==
    \/ Enter
    \/ BeginInstall
    \/ RunInstall
    \/ RunValidate
    \/ FinishInstall
    \/ BeginUninstall
    \/ RunUninstall
    \/ FinishUninstall

\* one call of executeConfigurePackage
Spec == Init /\ [][Next]_vars

\* every call a sub-procedure makes returns, and the code goes on
SpecLive == Init /\ [][Next]_vars /\ WF_vars(Next)

----------------------------------------------------------------------------
(* Resumption after a reboot *)

\* After MarkAsSuccessWithReboot the caller invokes executeConfigurePackage
\* again, with the same installers and in-place flag and with the state the
\* repository holds for the version that was being handled.
Resume ==
    /\ pc = "done"
    /\ run = 1
    /\ Reported(events) = << "MarkAsSuccessWithReboot" >>
    /\ initialInstallState' = store[interrupted.ver]
    /\ run' = 2
    /\ pc' = "entry"
    /\ cInst' = Nil
    /\ cUninst' = Nil
    /\ isRollback' = FALSE
    /\ result' = NoResult
    /\ events' = << >>
    /\ opened' = 0
    /\ ended' = 0
    /\ deferred' = 0
    /\ UNCHANGED << params, store, removed, interrupted, ref >>

NextResume ==
    \/ Next
    \/ Resume

\* a call of executeConfigurePackage, and the call that resumes it after a reboot
SpecResume == Init /\ [][NextResume]_vars

----------------------------------------------------------------------------
(* Properties *)

Finished == pc \in {"done", "panic"}

Settled == {Installed, None, Failed}

\* the versions on which the run has made a call
Touched == {events[i].ver : i \in 1..Len(events)} \ {"-"}

\* the run has returned with MarkAsSucceeded or MarkAsFailed
EndedWithoutReboot ==
    /\ pc = "done"
    /\ Reported(events) \in {<< "MarkAsSucceeded" >>, << "MarkAsFailed" >>}

\* C1: every call of executeConfigurePackage for a target (inst), whatever the
\* initial state, the in-place flag and the presence of a counterpart
\* (uninst), invokes exactly one of MarkAsSucceeded, MarkAsSuccessWithReboot,
\* MarkAsFailed, exactly once, by the time it returns.
C1_ExactlyOneOutcome ==
    inst # Nil =>
        /\ Len(Reported(events)) <= 1
        /\ Finished => Len(Reported(events)) = 1

ResumesFromMarker ==
    /\ run = 2
    /\ interrupted.marker \in {Installing, Updating, RollbackInstall, RollbackUninstall}
    /\ initialInstallState = interrupted.marker

\* C3: a call resumed from a persisted Installing, Updating, RollbackInstall or
\* RollbackUninstall, with the same installers and in-place flag, enters the
\* sub-procedure that was interrupted, on the same version and with the same
\* marker, and once the interrupted action has returned without reboot it
\* ends as the interrupted run ends when the action returns that result
\* there (every later call returning the same): same reported outcome, same
\* persisted states.
C3_IdempotentResumption ==
    ResumesFromMarker =>
        /\ Finished => events # << >>
        /\ events # << >> =>
            /\ events[1].op = "SetInstallState"
            /\ events[1].ver = interrupted.ver
            /\ events[1].arg = interrupted.marker
        /\ ( /\ Finished
             /\ \E e \in Range(events) :
                    /\ e.op = interrupted.op
                    /\ e.ver = interrupted.ver
                    /\ ~IsReboot(e.status) )
           => /\ ref.pc = pc
              /\ Reported(ref.events) = Reported(events)
              /\ ref.store = store

\* resumed from RollbackUninstall: the target is uninstalled, the old version
\* reinstalled, and both runs report failed with the old version Installed
C3_Witness ==
    /\ ResumesFromMarker
    /\ interrupted.marker = RollbackUninstall
    /\ pc = "done"
    /\ ref.pc = "done"
    /\ Reported(events) = << "MarkAsFailed" >>
    /\ Reported(ref.events) = << "MarkAsFailed" >>
    /\ store[OldVer] = Installed
    /\ ref.store = store

----------------------------------------------------------------------------
(* Failure of a forward install *)

IsSet(e, ver, state) ==
    /\ e.op = "SetInstallState"
    /\ e.ver = ver
    /\ e.arg = state

\* the action events of executeInstall(inst, uninst, ..., false) that returned
\* failed: Install, Update or Validate on the target after the marker
\* Installing or Updating
FailedForward ==
    {i \in 2..Len(events) :
        /\ events[i].op \in {"Install", "Update", "Validate"}
        /\ events[i].ver = inst
        /\ events[i].status = ResultStatusFailed
        /\ LastSet(SubSeq(events, 1, i)).arg \in {Installing, Updating}}

\* output.GetStderr() was called after a failure on ver and returned a text
\* that contains "missing update script"
MissingScriptRead(ver) ==
    \E e \in Range(events) : e.op = "GetStderr" /\ e.ver = ver /\ e.marker

\* the Uninstall calls of the run
Uninstalls == {i \in 1..Len(events) : events[i].op = "Uninstall"}

C5_NeverInstalled ==
    (Finished /\ uninst = Nil /\ FailedForward # {}) =>
        /\ IsSet(LastSet(events), inst, Failed)
        /\ Reported(events) = << "MarkAsFailed" >>
        /\ \A e \in Range(events) : ~IsSet(e, inst, Installed)

\* C5 amended: such a run reports MarkAsFailed and invokes no further action.
\* Unless the update was in place and the reporter's stderr contains "missing
\* update script" (then Installed is written for the target), Failed is
\* written last, for the target (and is its persisted state when the write
\* returned no error), and Installed is never written for the target.
C5_FailedUnlessMissingScript ==
    (Finished /\ uninst = Nil /\ FailedForward # {}) =>
        /\ pc = "done"
        /\ Reported(events) = << "MarkAsFailed" >>
        /\ Uninstalls = {}
        /\ \A i \in FailedForward : \A j \in (i + 1)..Len(events) :
                events[j].op \notin {"Install", "Update", "Validate"}
        /\ IF MissingScriptRead(inst)
           THEN /\ isUpdateInPlace
                /\ IsSet(LastSet(events), inst, Installed)
           ELSE /\ IsSet(LastSet(events), inst, Failed)
                /\ ~LastSet(events).err => store[inst] = Failed
                /\ \A e \in Range(events) : ~IsSet(e, inst, Installed)

\* an install without counterpart failed and the target is persisted as Failed
C5_Witness ==
    /\ pc = "done"
    /\ uninst = Nil
    /\ FailedForward # {}
    /\ ~MissingScriptRead(inst)
    /\ store[inst] = Failed
    /\ Reported(events) = << "MarkAsFailed" >>

----------------------------------------------------------------------------
(* The missing update script and the failed rollback *)

\* C6: whenever an in-place update of the target fails and the stderr of the
\* Result that Update returned contains "missing update script", the run
\* returns at once with Installed written for the target and MarkAsFailed
\* reported, without any further action.
C6_ResultStderrDecides ==
    [][ ( /\ pc = "install_result"
          /\ ~isRollback
          /\ isUpdateInPlace
          /\ events[Len(events)].op = "Update"
          /\ result.status = ResultStatusFailed
          /\ Contains(result.stderr, MissingUpdateScript) )
        => ( /\ pc' = "done"
             /\ IsSet(LastSet(events'), cInst, Installed)
             /\ Reported(events') = << "MarkAsFailed" >> ) ]_vars

\* the action events of an executeInstall with rollback = true that returned
\* failed: Install or Validate after the marker RollbackInstall
FailedRollback ==
    {i \in 2..Len(events) :
        /\ events[i].op \in {"Install", "Validate"}
        /\ events[i].status = ResultStatusFailed
        /\ LastSet(SubSeq(events, 1, i)).arg = RollbackInstall}

\* C7: whenever the Install of an executeInstall with rollback = true (or the
\* Validate that follows it) fails, Failed is written last, for the version
\* being restored, MarkAsFailed is reported, and no install, update,
\* uninstall or validate is invoked afterwards, whatever the in-place flag
\* and the stderr (stated for the calls that have a target).
C7_FailedRollbackIsFinal ==
    (Finished /\ inst # Nil) =>
        \A i \in FailedRollback :
            /\ IsSet(LastSet(events), events[i].ver, Failed)
            /\ Reported(events) = << "MarkAsFailed" >>
            /\ \A j \in (i + 1)..Len(events) :
                    events[j].op \notin Actions \cup {"Validate"}

----------------------------------------------------------------------------
(* Uninstall with nothing to install afterwards *)

\* executeUninstall has returned, it was called with inst = nil, and
\* Uninstall returned status
UninstalledOnly(status) ==
    /\ pc = "done"
    /\ cInst = Nil
    /\ \E i \in Uninstalls : events[i].status = status

\* C8: when executeUninstall runs with inst = nil and Uninstall returns
\* success without reboot, the run ends with RemovePackage on the uninstalled
\* version, SetInstallState(None) on it and MarkAsSucceeded; RemovePackage is
\* called once, on that version only, and None is the persisted state of the
\* version when the write returned no error.
C8_UninstallCleansUp ==
    UninstalledOnly(ResultStatusSuccess) =>
        LET n == Len(events) IN
        /\ n >= 3
        /\ events[n - 2].op = "RemovePackage"
        /\ events[n - 2].ver = cUninst
        /\ IsSet(events[n - 1], cUninst, None)
        /\ ~events[n - 1].err => store[cUninst] = None
        /\ Reported(events) = << "MarkAsSucceeded" >>
        /\ Cardinality({i \in 1..n : events[i].op = "RemovePackage"}) = 1
        /\ removed \subseteq {cUninst}
        /\ ~events[n - 2].err => removed = {cUninst}

\* a plain uninstall succeeded: the version is None and its artifacts are removed
C8_Witness ==
    /\ UninstalledOnly(ResultStatusSuccess)
    /\ ~isRollback
    /\ store[cUninst] = None
    /\ removed = {cUninst}
    /\ Reported(events) = << "MarkAsSucceeded" >>

\* C9: when a pure uninstall (inst = nil, rollback = false) has Uninstall
\* return reboot-pending, MarkAsSuccessWithReboot is reported, no
\* SetInstallState and no RemovePackage follows the action, nothing is
\* removed, and the version stays Uninstalling (the marker written before the
\* action, when that write returned no error).
C9_RebootLeavesUninstalling ==
    (UninstalledOnly(ResultStatusSuccessAndReboot) /\ ~isRollback) =>
        /\ Len(events) = 3
        /\ IsSet(events[1], cUninst, Uninstalling)
        /\ events[2].op = "Uninstall"
        /\ events[2].ver = cUninst
        /\ events[3].op = "MarkAsSuccessWithReboot"
        /\ removed = {}
        /\ ~events[1].err => store[cUninst] = Uninstalling

\* a plain uninstall asked for a reboot: the version is left Uninstalling
C9_Witness ==
    /\ UninstalledOnly(ResultStatusSuccessAndReboot)
    /\ ~isRollback
    /\ store[cUninst] = Uninstalling
    /\ removed = {}
    /\ Reported(events) = << "MarkAsSuccessWithReboot" >>

----------------------------------------------------------------------------
(* Write before action *)

InstallMarkers == {Installing, Updating, RollbackInstall}

UninstallMarkers == {Uninstalling, Upgrading, RollbackUninstall}

\* C10 as stated: at the moment Install, Update or Uninstall starts on a
\* version, the persisted state of that version is the matching in-progress
\* marker.
C10_MarkerPersisted ==
    /\ pc = "install_action" => store[cInst] \in InstallMarkers
    /\ pc = "uninstall_action" => store[cUninst] \in UninstallMarkers

\* C10 amended: every Install, Update or Uninstall call on a version is
\* immediately preceded by a SetInstallState call on that version carrying the
\* matching in-progress marker, and at the moment the action starts that
\* marker is the persisted state of the version when the call returned no
\* error.
C10_WriteBeforeAction ==
    /\ \A i \in 1..Len(events) :
        events[i].op \in Actions =>
            /\ i > 1
            /\ events[i - 1].op = "SetInstallState"
            /\ events[i - 1].ver = events[i].ver
            /\ events[i - 1].arg \in
                    (IF events[i].op = "Uninstall" THEN UninstallMarkers
                     ELSE InstallMarkers)
    /\ pc \in {"install_action", "uninstall_action"} =>
        /\ events # << >>
        /\ LET w == events[Len(events)]
               ver == IF pc = "install_action" THEN cInst ELSE cUninst
           IN /\ w.op = "SetInstallState"
              /\ w.ver = ver
              /\ w.arg \in (IF pc = "install_action" THEN InstallMarkers
                            ELSE UninstallMarkers)
              /\ ~w.err => store[ver] = w.arg

\* the rollback is about to uninstall the target, whose persisted state is
\* RollbackUninstall
C10_Witness ==
    /\ pc = "uninstall_action"
    /\ isRollback
    /\ \E e \in Range(events) : e.op = "Install" /\ e.ver = cUninst
    /\ store[cUninst] = RollbackUninstall

----------------------------------------------------------------------------
(* Live versions *)

Live(st) == {v \in Versions : st[v] \notin {None, Failed}}

\* the versions for which a SetInstallState call of the run returned no error
Written ==
    {v \in Versions :
        \E e \in Range(events) : e.op = "SetInstallState" /\ e.ver = v /\ ~e.err}

\* C11: in every reachable state, among the versions whose state the run has
\* persisted, at most one is live (neither None nor Failed), also while target
\* and counterpart are both handled in an upgrade or rollback chain.
C11_AtMostOneLive ==
    Cardinality(Live(store) \cap Written) <= 1

----------------------------------------------------------------------------
(* Errors of the repository *)

\* the calls evs with the error returned by the repository left out
Calls(evs) == [i \in 1..Len(evs) |-> [evs[i] EXCEPT !.err = FALSE]]

\* what a run has done and where it stands, without what the repository
\* holds and without the errors it returned
Control(s) ==
    [pc |-> s.pc, cInst |-> s.cInst, cUninst |-> s.cUninst,
     isRollback |-> s.isRollback, result |-> s.result, calls |-> Calls(s.events)]

\* the step of the run s that calls the repository
RepositoryStep(s, text, errRemove, err) ==
    CASE s.pc = "executeInstall"   -> executeInstall_Begin(s, err)
      [] s.pc = "install_result"   -> executeInstall_Result(s, text, errRemove, err)
      [] s.pc = "executeUninstall" -> executeUninstall_Begin(s, err)
      [] s.pc = "uninstall_result" -> executeUninstall_Result(s, errRemove, err)
      [] OTHER                     -> s

\* stores another run may hold at the same point
OtherStores == {[v \in Versions |-> None], [v \in Versions |-> Installed]}

\* C12: errors returned by SetInstallState and RemovePackage never change the
\* control flow or the outcome.  From any reachable point, whatever errors
\* the repository returns in the next step, the run makes the same calls and
\* reaches the same place as a run that stands at the same place after the
\* same calls, whose repository never returned an error and holds other
\* states, and is given the same inputs.  By induction two runs that differ
\* only in these errors make the same actions, the same writes and cleanups,
\* and report the same outcome.
C12_ErrorsDoNotSteer ==
    \A text \in Stderrs, st \in OtherStores :
        LET other == [Cur EXCEPT !.store = st, !.removed = {},
                                 !.events = Calls(events)]
            same == Control(RepositoryStep(other, text, FALSE, FALSE))
        IN \A errRemove \in BOOLEAN, err \in BOOLEAN :
                Control(RepositoryStep(Cur, text, errRemove, err)) = same

\* an upgrade whose marker write returned an error went on and succeeded
C12_Witness ==
    /\ pc = "done"
    /\ \E e \in Range(events) : e.err /\ e.op = "SetInstallState" /\ e.arg = Upgrading
    /\ \E e \in Range(events) : e.op = "Install" /\ e.ver = inst
    /\ Reported(events) = << "MarkAsSucceeded" >>

----------------------------------------------------------------------------
(* The dispatcher and the action of the install sub-procedure *)

\* the dispatcher has just called a sub-procedure, which has not made a call yet
Dispatched ==
    /\ pc \in {"executeInstall", "executeUninstall"}
    /\ events = << >>

Frame == << pc, cInst, cUninst, isRollback >>

\* C13: the dispatcher calls one sub-procedure, chosen from the persisted
\* state, the presence of the counterpart and the in-place flag: Installing
\* or Updating -> install(target, counterpart, false); RollbackInstall ->
\* install(counterpart, target, true); RollbackUninstall ->
\* uninstall(counterpart, target, true), which uninstalls the target; None,
\* Installed, Failed, Uninstalling, Upgrading -> uninstall(target,
\* counterpart, false) when a counterpart exists and the update is not in
\* place, else install(target, counterpart, false).  Only the section of the
\* dispatcher is open then, and the dispatcher is never entered again.
C13_DispatchTable ==
    /\ Dispatched =>
        /\ opened = 1
        /\ deferred = 1
        /\ initialInstallState \in {Installing, Updating}
                => Frame = << "executeInstall", inst, uninst, FALSE >>
        /\ initialInstallState = RollbackInstall
                => Frame = << "executeInstall", uninst, inst, TRUE >>
        /\ initialInstallState = RollbackUninstall
                => Frame = << "executeUninstall", uninst, inst, TRUE >>
        /\ initialInstallState \in {None, Installed, Failed, Uninstalling, Upgrading}
                => IF uninst # Nil /\ ~isUpdateInPlace
                   THEN Frame = << "executeUninstall", inst, uninst, FALSE >>
                   ELSE Frame = << "executeInstall", inst, uninst, FALSE >>
    /\ pc = "entry" => (events = << >> /\ opened = 0)

\* resumed from RollbackUninstall: the uninstall sub-procedure is about to
\* uninstall the target and will reinstall the counterpart
C13_Witness ==
    /\ Dispatched
    /\ initialInstallState = RollbackUninstall
    /\ inst = NewVer
    /\ uninst = OldVer
    /\ Frame = << "executeUninstall", OldVer, NewVer, TRUE >>

\* the Install and Update calls of the run
Installs == {i \in 1..Len(events) : events[i].op \in {"Install", "Update"}}

\* C14 as stated: in every invocation of the install sub-procedure the action
\* is Update if the in-place flag is set and Install otherwise.
C14_UpdateIffInPlace ==
    \A i \in Installs :
        events[i].op = (IF isUpdateInPlace THEN "Update" ELSE "Install")

\* C14 amended: the action of the install sub-procedure is Install if
\* rollback, else Update if in-place, else Install; the state written just
\* before it is RollbackInstall if rollback, else Updating if in-place, else
\* Installing.
C14_InstallOnRollback ==
    /\ \A i \in Installs :
        /\ i > 1
        /\ events[i - 1].op = "SetInstallState"
        /\ events[i - 1].ver = events[i].ver
        /\ events[i - 1].arg \in InstallMarkers
        /\ events[i - 1].arg = RollbackInstall => events[i].op = "Install"
        /\ events[i - 1].arg = Updating =>
                (isUpdateInPlace /\ events[i].op = "Update")
        /\ events[i - 1].arg = Installing =>
                (~isUpdateInPlace /\ events[i].op = "Install")
    /\ pc = "install_action" =>
        /\ events # << >>
        /\ IsSet(events[Len(events)], cInst,
                 IF isRollback THEN RollbackInstall
                 ELSE IF isUpdateInPlace THEN Updating ELSE Installing)
    /\ (pc \in {"validate", "install_result"} /\ Installs # {}) =>
        LET last == CHOOSE i \in Installs : \A j \in Installs : j <= i IN
        /\ events[last].ver = cInst
        /\ events[last].op = (IF isRollback THEN "Install"
                              ELSE IF isUpdateInPlace THEN "Update" ELSE "Install")
        /\ events[last - 1].arg = RollbackInstall <=> isRollback

\* the rollback of an in-place update has installed the counterpart with
\* Install, under RollbackInstall
C14_Witness ==
    /\ pc = "validate"
    /\ isRollback
    /\ isUpdateInPlace
    /\ events[Len(events)].op = "Install"
    /\ events[Len(events)].ver = cInst
    /\ IsSet(events[Len(events) - 1], cInst, RollbackInstall)
    /\ \E e \in Range(events) : e.op = "Update"

----------------------------------------------------------------------------
(* Failed uninstall, validation, reboot during install *)

\* C15: when Uninstall fails in the uninstall sub-procedure and there is a
\* version to install afterwards, the install sub-procedure is called for it
\* with the same rollback flag and nothing is written before (Failed is not
\* persisted for the version whose uninstall failed); when there is none,
\* Failed is written for the version, MarkAsFailed is reported, and the run
\* returns.
C15_FailedUninstall ==
    [][ ( /\ pc = "uninstall_result"
          /\ result.status = ResultStatusFailed )
        => IF cInst # Nil
           THEN /\ pc' = "executeInstall"
                /\ << cInst', cUninst', isRollback' >> = << cInst, cUninst, isRollback >>
                /\ events' = events
                /\ store' = store
           ELSE /\ pc' = "done"
                /\ Len(events') = Len(events) + 2
                /\ SubSeq(events', 1, Len(events)) = events
                /\ IsSet(events'[Len(events) + 1], cUninst, Failed)
                /\ ~events'[Len(events) + 1].err => store'[cUninst] = Failed
                /\ events'[Len(events) + 2].op = "MarkAsFailed" ]_vars

\* the uninstall of the target failed during a rollback and the install
\* sub-procedure is about to restore the counterpart; the target still holds
\* RollbackUninstall
C15_Witness ==
    /\ pc = "executeInstall"
    /\ isRollback
    /\ events # << >>
    /\ events[Len(events)].op = "Uninstall"
    /\ events[Len(events)].ver = cUninst
    /\ events[Len(events)].status = ResultStatusFailed
    /\ store[cUninst] = RollbackUninstall

\* the Validate calls of the run
Validates == {i \in 1..Len(events) : events[i].op = "Validate"}

\* C16: in the install sub-procedure Validate is called on the target, once,
\* exactly when Install/Update returned the status success (neither failed
\* nor reboot-pending), and then what follows is decided by the status of
\* Validate: reboot-pending -> MarkAsSuccessWithReboot; failed -> the failure
\* path (stderr read, MarkAsFailed, or rollback); success -> the success path
\* (cleanup, Installed).
C16_ValidateDecides ==
    /\ \A i \in Installs :
        /\ (events[i].status = ResultStatusSuccess /\ i < Len(events)) =>
                /\ events[i + 1].op = "Validate"
                /\ events[i + 1].ver = events[i].ver
        /\ (events[i].status = ResultStatusSuccess /\ i = Len(events)) =>
                pc = "validate"
        /\ (events[i].status # ResultStatusSuccess /\ i < Len(events)) =>
                events[i + 1].op # "Validate"
        /\ (events[i].status # ResultStatusSuccess /\ i = Len(events)) =>
                /\ pc # "validate"
                /\ pc = "install_result" => result.status = events[i].status
    /\ pc = "validate" =>
        /\ Len(events) \in Installs
        /\ events[Len(events)].status = ResultStatusSuccess
    /\ \A i \in Validates :
        /\ i - 1 \in Installs
        /\ events[i - 1].ver = events[i].ver
        /\ events[i - 1].status = ResultStatusSuccess
        /\ (i = Len(events) /\ pc = "install_result") =>
                result.status = events[i].status
        /\ i < Len(events) =>
            CASE IsReboot(events[i].status) ->
                    /\ events[i + 1].op = "MarkAsSuccessWithReboot"
                    /\ Len(events) = i + 1
              [] events[i].status = ResultStatusFailed ->
                    \/ events[i + 1].op \in {"GetStderr", "MarkAsFailed"}
                    \/ IsSet(events[i + 1], inst, RollbackUninstall)
              [] OTHER ->
                    \/ events[i + 1].op = "RemovePackage"
                    \/ IsSet(events[i + 1], events[i].ver, Installed)

\* the install succeeded, its validation failed, and the run reported failed
C16_Witness ==
    /\ pc = "done"
    /\ \E i \in Validates :
            /\ events[i].status = ResultStatusFailed
            /\ events[i - 1].status = ResultStatusSuccess
            /\ events[i + 1].op = "MarkAsFailed"
    /\ Reported(events) = << "MarkAsFailed" >>

\* C17: when Install/Update (or Validate after a successful one) returns
\* reboot-pending, the run reports MarkAsSuccessWithReboot and returns: no
\* SetInstallState and no RemovePackage follows the action, and the version
\* stays at the marker written before the action (Installing, Updating or
\* RollbackInstall, persisted when that write returned no error), also when
\* a counterpart exists.
C17_RebootLeavesMarker ==
    \A i \in Installs \cup Validates :
        (IsReboot(events[i].status) /\ i < Len(events)) =>
            LET w == LastSet(SubSeq(events, 1, i)) IN
            /\ pc = "done"
            /\ Len(events) = i + 1
            /\ events[i + 1].op = "MarkAsSuccessWithReboot"
            /\ w.ver = events[i].ver
            /\ w.arg \in InstallMarkers
            /\ ~w.err => store[w.ver] = w.arg

\* an in-place update with a counterpart asked for a reboot after validation
C17_Witness ==
    /\ pc = "done"
    /\ cUninst # Nil
    /\ events[Len(events) - 1].op = "Validate"
    /\ IsReboot(events[Len(events) - 1].status)
    /\ store[cInst] = Updating
    /\ removed = {}
    /\ Reported(events) = << "MarkAsSuccessWithReboot" >>

----------------------------------------------------------------------------
(* Termination and depth of the recursion *)

\* the sub-procedure invocations of the run: each writes its marker first;
\* one may have been called and not have written yet, or have panicked on a
\* nil installer before writing
Invocations ==
    Cardinality({i \in 1..Len(events) :
                    events[i].op = "SetInstallState" /\ events[i].arg \in InProgress})
    + (IF pc \in {"executeInstall", "executeUninstall"} THEN 1 ELSE 0)
    + (IF pc = "panic" /\ events = << >> THEN 1 ELSE 0)

InInstall == pc \in {"executeInstall", "install_action", "validate", "install_result"}

InUninstall == pc \in {"executeUninstall", "uninstall_action", "uninstall_result"}

\* C18: every call terminates provided each action call returns; a run makes
\* at most four sub-procedure invocations; once a sub-procedure runs with
\* rollback = true every later one does; an install sub-procedure running
\* with rollback = true never calls the uninstall sub-procedure.
C18_BoundedRecursion ==
    /\ <>Finished
    /\ [](Invocations <= 4)
    /\ [][isRollback => isRollback']_vars
    /\ [][(isRollback /\ InInstall) => ~InUninstall']_vars

\* uninstall, install, rollback-uninstall, rollback-install: four invocations
C18_Witness ==
    /\ pc = "done"
    /\ Invocations = 4
    /\ isRollback
    /\ \E e \in Range(events) : IsSet(e, OldVer, Upgrading)
    /\ \E e \in Range(events) : IsSet(e, NewVer, Installing)
    /\ \E e \in Range(events) : IsSet(e, NewVer, RollbackUninstall)
    /\ \E e \in Range(events) : IsSet(e, OldVer, RollbackInstall)

----------------------------------------------------------------------------
(* Trace sections and the outcome of a rollback *)

\* C19: every trace section opened during a call has been ended by the time
\* the call returns: as many End calls as BeginSection calls.
C19_AllSectionsEnded ==
    pc = "done" => opened = ended

\* some sub-procedure of the run was invoked with rollback = true
RolledBack ==
    \E e \in Range(events) :
        e.op = "SetInstallState" /\ e.arg \in {RollbackInstall, RollbackUninstall}

\* C20: in a run in which some sub-procedure is invoked with rollback = true
\* MarkAsSucceeded is never called.
C20_NoSuccessAfterRollback ==
    RolledBack => "MarkAsSucceeded" \notin Range(Reported(events))

====
